---- MODULE Spec2Model ----
(***************************************************************************)
(* Model of apparun.impact_model.ImpactModel: the parameter transform      *)
(* engine (transform_parameters), the score orchestrator (get_scores,      *)
(* get_nodes_scores), the Sobol first-order analysis driver                *)
(* (get_sobol_s1_indices) and from_tree_children.                          *)
(*                                                                         *)
(* A Python dict is an insertion-ordered mapping.  It is modelled as a     *)
(* sequence of entries [k |-> key, v |-> value] with pairwise distinct     *)
(* keys.  A parameter value is [isList |-> b, xs |-> s]: isList is the     *)
(* outcome of isinstance(value, list); a scalar carries its one value in   *)
(* xs.                                                                     *)
(***************************************************************************)
EXTENDS Integers, Sequences, FiniteSets, TLC

\* ------------------------------------------------------------------ bounds
\* Longest list a caller passes as a parameter value.
MaxLen == 2
\* Largest number of base samples asked of get_sobol_s1_indices.
MaxN == 1

\* ------------------------------------------------------------ value domains
Vals == {1, 2}
DeclaredNames == <<"a", "b">>
UnknownName == "z"
CallerNames == {"a", "b", "z"}
Methods == <<"m1", "m2">>
None == "None"

Scalar(x) == [isList |-> FALSE, xs |-> <<x>>]
ListOf(s) == [isList |-> TRUE, xs |-> s]

\* Lists a caller passes: the empty list and, for each length up to MaxLen,
\* the two alternating lists over Vals.
CallerLists ==
  {<<>>} \cup {[i \in 1..n |-> IF i % 2 = s THEN 1 ELSE 2] : n \in 1..MaxLen, s \in {0, 1}}

CallerValues == {Scalar(x) : x \in Vals} \cup {ListOf(s) : s \in CallerLists}

\* ------------------------------------------------------------- Python dicts
Keys(d) == {d[i].k : i \in DOMAIN d}

Get(d, key) == d[CHOOSE i \in DOMAIN d : d[i].k = key].v

\* d[key] = value: a present key keeps its position and takes the new value,
\* a new key is appended.
SetItem(d, key, value) ==
  IF key \in Keys(d)
    THEN [i \in DOMAIN d |-> IF d[i].k = key THEN [k |-> key, v |-> value] ELSE d[i]]
    ELSE Append(d, [k |-> key, v |-> value])

RECURSIVE Update(_, _)
\* d.update(e): the entries of e set in e's order.
Update(d, e) ==
  IF e = <<>> THEN d
  ELSE Update(SetItem(d, Head(e).k, Head(e).v), Tail(e))

\* {**a, **b}
DictMerge(a, b) == Update(Update(<<>>, a), b)

\* Python's == on dicts ignores the order: the mapping as a set of pairs.
Items(d) == {<<d[i].k, d[i].v>> : i \in DOMAIN d}

\* Every ordered dict over a subset of `names` with values in `values`.
RECURSIVE OrderedDicts(_, _)
OrderedDicts(names, values) ==
  {<<>>} \cup
  UNION {{<<[k |-> n, v |-> x]>> \o rest : x \in values, rest \in OrderedDicts(names \ {n}, values)}
         : n \in names}

\* ------------------------------------------------------------------- state
VARIABLES
  parameters,   \* ImpactModel.parameters: sequence of [name, default, keys]
  tree,         \* ImpactModel.tree: the name of the model's root node
  op,           \* the method whose call has just ended ("idle" between calls)
  given,        \* the caller's parameter mapping as it was when the call was made
  caller,       \* the caller's parameter mapping as it is after the call
  args,         \* the call's other arguments: [by_property, n, all_nodes]
  status,       \* "ok", or the exception the call ended with
  passed,       \* the mapping handed to transform_parameters
  applied,      \* the transform functions applied, in order: [k |-> name, v |-> value received]
  transformed,  \* the mapping transform_parameters returned (<<>> when it raised)
  computed,     \* the compute calls made, in order: [node, params, direct]
  returned      \* what the method returned: [kind |-> ..., val |-> ...]

vars == <<parameters, tree, op, given, caller, args, status, passed,
          applied, transformed, computed, returned>>

\* ------------------------------------------------- the parameter collection
\* The output keys a parameter's transform produces, in the order of the dict
\* it returns.  "k" is a key both parameters may produce.
KeyChoices(name) ==
  IF name = "a" THEN {<<"ka">>, <<"k", "ka">>} ELSE {<<"kb">>, <<"kb", "k">>}

\* The default value each declared parameter is built with.
DefaultOf(name) == IF name = "a" THEN 1 ELSE 2

ParameterCollections ==
  {[i \in DOMAIN DeclaredNames |->
      [name |-> DeclaredNames[i], default |-> DefaultOf(DeclaredNames[i]), keys |-> ks[i]]]
     : ks \in {f \in [DOMAIN DeclaredNames -> KeyChoices("a") \cup KeyChoices("b")]
                 : \A i \in DOMAIN DeclaredNames : f[i] \in KeyChoices(DeclaredNames[i])}}

names == {parameters[i].name : i \in DOMAIN parameters}

ParamOf(name) == parameters[CHOOSE i \in DOMAIN parameters : parameters[i].name = name]

\* The output keys of a parameter's transform (none for a name that is not declared).
KeysOf(name) == IF name \in names THEN ParamOf(name).keys ELSE <<>>

\* The value a transform function returns under one output key for one raw value.
Derived(name, key, x) == [par |-> name, key |-> key, arg |-> x]

\* ImpactModelParam.transform: a raw value, or a list of raw values, to a dict
\* of derived values, or of equally long lists of derived values.
transform(name, value) ==
  LET keys == KeysOf(name) IN
  [j \in DOMAIN keys |->
     [k |-> keys[j],
      v |-> [isList |-> value.isList,
             xs |-> [i \in DOMAIN value.xs |-> Derived(name, keys[j], value.xs[i])]]]]

\* self.transformation_table[parameter_name] finds a transform.
HasTransformLenient(name) == TRUE
HasTransform(name) == name \in names

\* ---------------------------------------------------- transform_parameters
IsListEntry(e) == e.v.isList
IsSingleEntry(e) == ~e.v.isList
list_parameters(params) == SelectSeq(params, IsListEntry)
single_parameters(params) == SelectSeq(params, IsSingleEntry)

Lengths(lp) == {Len(lp[i].v.xs) : i \in DOMAIN lp}
MinOf(S) == CHOOSE x \in S : \A y \in S : x <= y
MaxOf(S) == CHOOSE x \in S : \A y \in S : x >= y

\* The assertion on the lists' lengths.
LengthsAgreeUnchecked(lp) == TRUE
LengthsAgree(lp) == MinOf(Lengths(lp)) = MaxOf(Lengths(lp))

\* [parameter_value] * n
Repeat(x, n) == [i \in 1..n |-> x]

BroadcastOnce(params) ==
  DictMerge([i \in DOMAIN single_parameters(params) |->
               [k |-> single_parameters(params)[i].k,
                v |-> ListOf(single_parameters(params)[i].v.xs)]],
            list_parameters(params))
full_list_parameters(params) ==
  LET lp == list_parameters(params)
      sp == single_parameters(params)
      n  == Len(lp[1].v.xs)
  IN DictMerge([i \in DOMAIN sp |-> [k |-> sp[i].k, v |-> ListOf(Repeat(sp[i].v.xs[1], n))]], lp)

RECURSIVE MergeTablesFrom(_, _)
MergeTablesFrom(acc, tables) ==
  IF tables = <<>> THEN acc
  ELSE MergeTablesFrom(Update(acc, Head(tables)), Tail(tables))

\* {name: value for table in tables for name, value in table.items()}
MergeLastTableOnly(tables) == IF tables = <<>> THEN <<>> ELSE tables[Len(tables)]
MergeTables(tables) == MergeTablesFrom(<<>>, tables)

\* The list comprehension applying each entry's transform in the entries'
\* order; a name without a transform raises KeyError at its turn.
TransformAll(entries) ==
  LET bad == {i \in DOMAIN entries : ~HasTransform(entries[i].k)} IN
  IF bad = {}
    THEN [status |-> "ok", applied |-> entries,
          out |-> MergeTables([i \in DOMAIN entries |-> transform(entries[i].k, entries[i].v)])]
    ELSE [status |-> "KeyError", applied |-> SubSeq(entries, 1, MinOf(bad) - 1), out |-> <<>>]

\* The argument mapping after the call: every mapping the method fills is a
\* new one, the argument is only read.
ArgumentBroadcastInPlace(params, fresh) == fresh
ArgumentAfter(params, fresh) == params

transform_parameters(params) ==
  IF Len(list_parameters(params)) = 0
    THEN [caller |-> params] @@ TransformAll(params)
  ELSE IF ~LengthsAgree(list_parameters(params))
    THEN [caller |-> params, status |-> "AssertionError", applied |-> <<>>, out |-> <<>>]
  ELSE [caller |-> ArgumentAfter(params, full_list_parameters(params))]
         @@ TransformAll(full_list_parameters(params))

\* ------------------------------------------------------------ the tree
\* The nodes of the tree the model is built with, in the order
\* unnested_descendants lists them, and each node's parent and properties.
AllNodes == <<"root", "n1", "n2", "n3">>

ParentOf(node) ==
  CASE node = "n1" -> "root"
    [] node = "n2" -> "n1"
    [] node = "n3" -> "root"
    [] OTHER -> None

PropertiesOf(node) == [kind |-> IF node \in {"root", "n3"} THEN "x" ELSE "y"]

RECURSIVE InSubtree(_, _)
InSubtree(node, root) ==
  \/ node = root
  \/ node # None /\ ParentOf(node) # None /\ InSubtree(ParentOf(node), root)

children(node) == {AllNodes[i] : i \in {j \in DOMAIN AllNodes : ParentOf(AllNodes[j]) = node}}

IndicesUnder(root) == {i \in DOMAIN AllNodes : InSubtree(AllNodes[i], root)}

RECURSIVE SeqOfIndices(_)
SeqOfIndices(S) ==
  IF S = {} THEN <<>>
  ELSE <<AllNodes[MinOf(S)]>> \o SeqOfIndices(S \ {MinOf(S)})

\* ImpactTreeNode.unnested_descendants: the node and everything below it.
unnested_descendants(root) == SeqOfIndices(IndicesUnder(root))

\* ImpactTreeNode.compute: one score, or batch of scores, per impact method.
compute(node, transformed_params, direct_impacts) ==
  [j \in DOMAIN Methods |->
     [k |-> Methods[j],
      v |-> [node |-> node, method |-> Methods[j], direct |-> direct_impacts,
             params |-> Items(transformed_params)]]]

\* --------------------------------------------------- the score orchestrator
\* ImpactModelParams.get_missing_parameter_names: the declared names the
\* caller's mapping does not hold, in declaration order.
get_missing_parameter_names(params) ==
  SelectSeq([i \in DOMAIN parameters |-> parameters[i].name],
            LAMBDA name : name \notin Keys(params))

\* ImpactModelParams.get_default_values
get_default_values(wanted) ==
  [i \in DOMAIN wanted |-> [k |-> wanted[i], v |-> Scalar(ParamOf(wanted[i]).default)]]

AllDeclared == [i \in DOMAIN parameters |-> parameters[i].name]

\* {**params, **default_params} with the defaults of the missing names.
MergeDefaultsOverAll(params) == DictMerge(params, get_default_values(AllDeclared))
MergeNoDefaults(params) == params
MergedWithDefaults(params) ==
  DictMerge(params, get_default_values(get_missing_parameter_names(params)))

\* **params builds a new dict holding the caller's values: the caller's dict is
\* out of the callee's reach, the list objects in it are shared with the callee.
KwargsAfter(params, after) ==
  [i \in DOMAIN params |->
     [k |-> params[i].k,
      v |-> IF params[i].v.isList /\ params[i].k \in Keys(after)
              THEN Get(after, params[i].k) ELSE params[i].v]]

\* direct_impacts=by_property is not None
DirectAlways(by) == "true"
DirectFlag(by) == IF by # None THEN "true" ELSE "false"

\* node.parent.name if node.parent is not None else ""
ParentField(node) == IF ParentOf(node) # None THEN ParentOf(node) ELSE ""

\* NodeScores.combine_by_property: one record per distinct value of the
\* property, holding the records that share it.
combine_by_property(scores, by) ==
  LET firsts == {i \in DOMAIN scores :
                   \A j \in 1..(i - 1) : scores[j].properties[by] # scores[i].properties[by]}
      RECURSIVE Groups(_)
      Groups(S) ==
        IF S = {} THEN <<>>
        ELSE LET i == MinOf(S)
                 pv == scores[i].properties[by]
             IN <<[combined_by |-> by, value |-> pv,
                   members |-> SelectSeq(scores, LAMBDA r : r.properties[by] = pv)]>>
                \o Groups(S \ {i})
  IN Groups(firsts)

\* The outcome of get_scores(**params).
get_scores(params) ==
  LET merged == MergedWithDefaults(params)
      r == transform_parameters(merged)
  IN [caller |-> KwargsAfter(params, r.caller), status |-> r.status, passed |-> merged,
      applied |-> r.applied, transformed |-> r.out,
      computed |-> IF r.status = "ok"
                     THEN <<[node |-> tree, params |-> Items(r.out), direct |-> "unset"]>>
                     ELSE <<>>,
      scores |-> IF r.status = "ok" THEN compute(tree, r.out, "unset") ELSE <<>>]

\* The outcome of get_nodes_scores(by_property, **params).
get_nodes_scores(by, params) ==
  LET merged == MergedWithDefaults(params)
      r == transform_parameters(merged)
      nodes == unnested_descendants(tree)
      scores == [i \in DOMAIN nodes |->
                   [name |-> nodes[i], properties |-> PropertiesOf(nodes[i]),
                    parent |-> ParentField(nodes[i]),
                    lcia_scores |-> compute(nodes[i], r.out, DirectFlag(by))]]
  IN [caller |-> KwargsAfter(params, r.caller), status |-> r.status, passed |-> merged,
      applied |-> r.applied, transformed |-> r.out,
      computed |-> IF r.status = "ok"
                     THEN [i \in DOMAIN nodes |->
                             [node |-> nodes[i], params |-> Items(r.out), direct |-> DirectFlag(by)]]
                     ELSE <<>>,
      combined |-> r.status = "ok" /\ by # None,
      scores |-> IF r.status # "ok" THEN <<>>
                 ELSE IF by # None THEN combine_by_property(scores, by)
                 ELSE scores]

\* ----------------------------------------------------- sensitivity analysis
\* ImpactModelParams.sobol_problem
sobol_problem == [num_vars |-> Len(parameters), names |-> AllDeclared]

\* The batch length of a Sobol design of n base samples over k parameters.
SobolRows(n) == n * (2 * Len(parameters) + 2)

\* sobol_draw then draw_to_distrib: one batch per declared parameter, all of
\* the design's length; `seed` stands for the draw.
sobol_samples(n, seed) ==
  [i \in DOMAIN parameters |->
     [k |-> parameters[i].name,
      v |-> ListOf([d \in 1..SobolRows(n) |-> IF (d + i + seed) % 2 = 0 THEN 1 ELSE 2])]]

\* SALib's sobol.analyze(...)["S1"]: one first-order index per variable of the problem.
S1(problem, scores) == [i \in 1..problem.num_vars |-> [of |-> scores, var |-> i]]

\* sobol_s1_indices += rows
ExtendOverwriting(acc, rows) == rows
Extend(acc, rows) == acc \o rows

RowsOf(unit, method, scores) ==
  LET s1 == S1(sobol_problem, scores) IN
  [i \in DOMAIN s1 |->
     [node |-> unit, method |-> method, parameter |-> sobol_problem.names[i], sobol_s1 |-> s1[i]]]

RECURSIVE OverMethods(_, _, _)
\* for method, scores in lcia_scores.scores.items(): ...
OverMethods(acc, unit, items) ==
  IF items = <<>> THEN acc
  ELSE OverMethods(Extend(acc, RowsOf(unit, Head(items).k, Head(items).v)), unit, Tail(items))

RECURSIVE OverNodes(_, _)
\* for node_scores in lcia_scores: ...
OverNodes(acc, nodes_scores) ==
  IF nodes_scores = <<>> THEN acc
  ELSE OverNodes(OverMethods(acc, Head(nodes_scores).name, Head(nodes_scores).lcia_scores),
                 Tail(nodes_scores))

\* ----------------------------------------------------------------- actions
NoArgs == [by_property |-> None, n |-> 0, all_nodes |-> FALSE]
Raised == [kind |-> "raised", val |-> <<>>]

Init ==
  /\ parameters \in ParameterCollections
  /\ tree = "root"
  /\ op = "idle"
  /\ given = <<>>
  /\ caller = <<>>
  /\ args = NoArgs
  /\ status = "ok"
  /\ passed = <<>>
  /\ applied = <<>>
  /\ transformed = <<>>
  /\ computed = <<>>
  /\ returned = [kind |-> "nothing", val |-> <<>>]

CallerDicts == OrderedDicts(CallerNames, CallerValues)

TransformParameters ==
  /\ op = "idle"
  /\ \E params \in CallerDicts :
       LET r == transform_parameters(params) IN
       /\ op' = "transform_parameters"
       /\ given' = params
       /\ caller' = r.caller
       /\ args' = NoArgs
       /\ status' = r.status
       /\ passed' = params
       /\ applied' = r.applied
       /\ transformed' = r.out
       /\ computed' = <<>>
       /\ returned' = IF r.status = "ok" THEN [kind |-> "params", val |-> r.out] ELSE Raised
  /\ UNCHANGED <<parameters, tree>>

GetScores ==
  /\ op = "idle"
  /\ \E params \in CallerDicts :
       LET r == get_scores(params) IN
       /\ op' = "get_scores"
       /\ given' = params
       /\ caller' = r.caller
       /\ args' = NoArgs
       /\ status' = r.status
       /\ passed' = r.passed
       /\ applied' = r.applied
       /\ transformed' = r.transformed
       /\ computed' = r.computed
       /\ returned' = IF r.status = "ok" THEN [kind |-> "scores", val |-> r.scores] ELSE Raised
  /\ UNCHANGED <<parameters, tree>>

GetNodesScores ==
  /\ op = "idle"
  /\ \E params \in CallerDicts, by \in {None, "kind"} :
       LET r == get_nodes_scores(by, params) IN
       /\ op' = "get_nodes_scores"
       /\ given' = params
       /\ caller' = r.caller
       /\ args' = [NoArgs EXCEPT !.by_property = by]
       /\ status' = r.status
       /\ passed' = r.passed
       /\ applied' = r.applied
       /\ transformed' = r.transformed
       /\ computed' = r.computed
       /\ returned' = IF r.status # "ok" THEN Raised
                      ELSE [kind |-> IF r.combined THEN "combined" ELSE "node_scores",
                            val |-> r.scores]
  /\ UNCHANGED <<parameters, tree>>

GetSobolS1Indices ==
  /\ op = "idle"
  /\ \E n \in 1..MaxN, seed \in {0, 1}, all_nodes \in BOOLEAN :
       LET samples == sobol_samples(n, seed)
           r == IF all_nodes THEN get_nodes_scores(None, samples) ELSE get_scores(samples)
       IN
       /\ op' = "get_sobol_s1_indices"
       /\ given' = samples
       /\ caller' = r.caller
       /\ args' = [by_property |-> None, n |-> n, all_nodes |-> all_nodes]
       /\ status' = r.status
       /\ passed' = r.passed
       /\ applied' = r.applied
       /\ transformed' = r.transformed
       /\ computed' = r.computed
       /\ returned' = IF r.status # "ok" THEN Raised
                      ELSE [kind |-> "sobol",
                            val |-> IF all_nodes THEN OverNodes(<<>>, r.scores)
                                    ELSE OverMethods(<<>>, tree, r.scores)]
  /\ UNCHANGED <<parameters, tree>>

\* from_tree_children: a new model per child of the root, sharing the
\* parameters; the caller goes on with one of them.
FromTreeChildren ==
  /\ op = "idle"
  /\ \E child \in children(tree) : tree' = child
  /\ UNCHANGED <<parameters, op, given, caller, args, status, passed, applied,
                 transformed, computed, returned>>

\* The caller takes the result, or the exception, of the call that ended.
Return ==
  /\ op # "idle"
  /\ op' = "idle"
  /\ given' = <<>>
  /\ caller' = <<>>
  /\ args' = NoArgs
  /\ status' = "ok"
  /\ passed' = <<>>
  /\ applied' = <<>>
  /\ transformed' = <<>>
  /\ computed' = <<>>
  /\ returned' = [kind |-> "nothing", val |-> <<>>]
  /\ UNCHANGED <<parameters, tree>>

Next ==
  \/ TransformParameters
  \/ GetScores
  \/ GetNodesScores
  \/ GetSobolS1Indices
  \/ FromTreeChildren
  \/ Return

Spec == Init /\ [][Next]_vars

\* ------------------------------------------------------------- properties
Evaluations == {"transform_parameters", "get_scores", "get_nodes_scores"}
Orchestrated == {"get_scores", "get_nodes_scores"}

ListIndices(d) == {i \in DOMAIN d : d[i].v.isList}
HasList(d) == ListIndices(d) # {}
UnequalLists(d) ==
  \E i, j \in ListIndices(d) : Len(d[i].v.xs) # Len(d[j].v.xs)
CommonLength(d) == Len(d[CHOOSE i \in ListIndices(d) : TRUE].v.xs)

\* The declared parameters whose transform produces `key`.
Producers(key) ==
  {parameters[i].name : i \in {j \in DOMAIN parameters :
                                 \E x \in DOMAIN parameters[j].keys : parameters[j].keys[x] = key}}
\* The output keys of the transforms of the names in S.
ProducedBy(S) == UNION {{KeysOf(n)[x] : x \in DOMAIN KeysOf(n)} : n \in S}

\* C1: transform_parameters, given list-valued parameters of different
\* lengths, raises (the assertion fails) before any transform function is
\* applied, and returns no mapping.
C1_UnequalBatchesRejected ==
  (op # "idle" /\ UnequalLists(passed)) =>
    /\ status = "AssertionError"
    /\ applied = <<>>
    /\ transformed = <<>>
    /\ returned = Raised

C1_Witness ==
  /\ op = "transform_parameters"
  /\ Len(passed) = 3
  /\ passed[1].k = "a" /\ passed[1].v = ListOf(<<1, 2>>)
  /\ passed[2].k = "b" /\ passed[2].v = ListOf(<<1>>)
  /\ status = "AssertionError"

\* C2: given at least one list-valued parameter, all lists of one length L,
\* every transform function applied receives a list of length L: L copies of
\* the scalar for a scalar-valued parameter, the caller's list itself for a
\* list-valued one.  When the call succeeds every parameter's transform was
\* applied once, and every output value is a list of length L whose position i
\* derives from position i of one parameter.
C2_BroadcastToCommonLength ==
  (op # "idle" /\ HasList(passed) /\ ~UnequalLists(passed)) =>
    LET L == CommonLength(passed) IN
    /\ status \in {"ok", "KeyError"}
    /\ \A i \in DOMAIN applied :
         LET e == applied[i]
             was == Get(passed, e.k)
         IN /\ e.k \in Keys(passed)
            /\ e.v.isList
            /\ Len(e.v.xs) = L
            /\ was.isList => e.v.xs = was.xs
            /\ ~was.isList => \A x \in 1..L : e.v.xs[x] = was.xs[1]
    /\ \A i, j \in DOMAIN applied : applied[i].k = applied[j].k => i = j
    /\ status = "ok" =>
         /\ Keys(applied) = Keys(passed)
         /\ \A i \in DOMAIN transformed :
              LET o == transformed[i] IN
              /\ o.v.isList
              /\ Len(o.v.xs) = L
              /\ \E j \in DOMAIN applied :
                   \A x \in 1..L : o.v.xs[x] = Derived(applied[j].k, o.k, applied[j].v.xs[x])

C2_Witness ==
  /\ op = "transform_parameters"
  /\ status = "ok"
  /\ Len(passed) = 2
  /\ passed[1].k = "b" /\ passed[1].v = ListOf(<<2, 1>>)
  /\ passed[2].k = "a" /\ passed[2].v = Scalar(2)
  /\ \E i \in DOMAIN applied : applied[i].k = "a" /\ applied[i].v = ListOf(<<2, 2>>)

\* The parameter of the input mapping d that is the last, in d's order, whose
\* transform produces `key`.
LastProducer(d, key) ==
  d[MaxOf({i \in DOMAIN d : d[i].k \in Producers(key)})].k

\* C3: when several parameters' transforms return the same output key, the
\* value kept is the one of the parameter that comes last in the input
\* mapping's order, on the scalar-only path and on the batch path alike.
C3_LastWriteWinsInInputOrder ==
  (op = "transform_parameters" /\ status = "ok") =>
    \A i \in DOMAIN transformed :
      \A x \in DOMAIN transformed[i].v.xs :
        transformed[i].v.xs[x].par = LastProducer(passed, transformed[i].k)

\* C4: for an input without list values (and with declared names only) the
\* call succeeds, each transform is applied exactly once to its parameter's
\* scalar value, and the returned mapping's keys are the union of the
\* transforms' output keys; the empty input yields the empty mapping.
C4_ScalarKeyUnion ==
  (op = "transform_parameters" /\ ~HasList(passed) /\ Keys(passed) \subseteq names) =>
    /\ status = "ok"
    /\ applied = passed
    /\ returned.kind = "params"
    /\ Keys(returned.val) = ProducedBy(Keys(passed))
    /\ Len(returned.val) = Cardinality(ProducedBy(Keys(passed)))
    /\ passed = <<>> => returned.val = <<>>

C4_Witness ==
  /\ op = "transform_parameters"
  /\ status = "ok"
  /\ Len(passed) = 2
  /\ ~HasList(passed)
  /\ Keys(returned.val) = {"ka", "k", "kb"}

\* C5: in get_scores and get_nodes_scores the mapping handed to
\* transform_parameters holds every declared parameter exactly once; a name the
\* caller supplied keeps the caller's value, and exactly the declared names the
\* caller did not supply carry their default value.
C5_DefaultsFillMissingOnly ==
  (op \in Orchestrated) =>
    /\ \A n \in names : Cardinality({i \in DOMAIN passed : passed[i].k = n}) = 1
    /\ Keys(passed) = Keys(given) \cup names
    /\ Len(passed) = Cardinality(Keys(passed))
    /\ \A i \in DOMAIN given : Get(passed, given[i].k) = given[i].v
    /\ \A n \in names \ Keys(given) : Get(passed, n) = Scalar(ParamOf(n).default)

C5_Witness ==
  /\ op = "get_scores"
  /\ Keys(given) = {"a"}
  /\ given[1].v = Scalar(2)
  /\ Get(passed, "a") = Scalar(2)
  /\ Get(passed, "b") = Scalar(ParamOf("b").default)

\* The calls that supply every declared parameter, each with its default
\* value, in any order.
ExplicitDefaultCalls ==
  {d \in OrderedDicts(names, {Scalar(x) : x \in Vals}) :
     /\ Keys(d) = names
     /\ \A i \in DOMAIN d : d[i].v = Scalar(ParamOf(d[i].k).default)}

\* The call made supplied only declared parameters, each with its default value.
SuppliedDefaultsOnly ==
  /\ op = "get_scores"
  /\ Keys(given) \subseteq names
  /\ \A i \in DOMAIN given : given[i].v = Scalar(ParamOf(given[i].k).default)

\* C6 as stated: get_scores with every declared parameter supplied at its
\* default value hands tree.compute the same transformed mapping, and returns
\* the same scores, as get_scores with any subset of them omitted, whatever the
\* order the caller supplies them in.
C6_DefaultsInertAnyOrder ==
  SuppliedDefaultsOnly =>
    /\ status = "ok"
    /\ \A full \in ExplicitDefaultCalls :
         /\ get_scores(full).computed[1].params = computed[1].params
         /\ get_scores(full).scores = returned.val

\* C6 as amended: the two calls hand tree.compute mappings with the same keys,
\* which agree on every key that only one declared parameter's transform
\* produces (so the mappings, and the scores, are the same when no output key
\* is produced by two parameters).
C6_DefaultsInertOnUnsharedKeys ==
  SuppliedDefaultsOnly =>
    /\ status = "ok"
    /\ \A full \in ExplicitDefaultCalls :
         LET other == get_scores(full) IN
         /\ other.status = "ok"
         /\ {kv[1] : kv \in other.computed[1].params} = {kv[1] : kv \in computed[1].params}
         /\ {kv \in other.computed[1].params : Cardinality(Producers(kv[1])) = 1}
              = {kv \in computed[1].params : Cardinality(Producers(kv[1])) = 1}
         /\ (\A kv \in computed[1].params : Cardinality(Producers(kv[1])) = 1) =>
              /\ other.computed[1].params = computed[1].params
              /\ other.scores = returned.val

C6_Witness ==
  /\ SuppliedDefaultsOnly
  /\ Keys(given) = {"b"}
  /\ status = "ok"
  /\ \E kv \in computed[1].params : Cardinality(Producers(kv[1])) = 2
  /\ \E kv \in computed[1].params : Cardinality(Producers(kv[1])) = 1

\* C7: a call of get_scores or get_nodes_scores that passes a name without a
\* registered transform ends with an error, calls no node's compute and
\* returns nothing.
C7_UnknownNameFailsBeforeCompute ==
  (op \in Orchestrated /\ ~(Keys(given) \subseteq names)) =>
    /\ status # "ok"
    /\ computed = <<>>
    /\ returned = Raised

C7_Witness ==
  /\ op = "get_nodes_scores"
  /\ UnknownName \in Keys(given)
  /\ status = "KeyError"
  /\ applied # <<>>
  /\ computed = <<>>

\* The units get_sobol_s1_indices analyses: every node, or the root alone.
Units == IF args.all_nodes THEN unnested_descendants(tree) ELSE <<tree>>

\* C8: get_sobol_s1_indices returns |units| x |methods| x |parameters| records
\* (the root alone is the unit when all_nodes is False), one per (unit, method,
\* parameter) triple and none repeated; the record of parameter i carries the
\* problem's i-th name and the i-th first-order index of that unit and method.
C8_OneRecordPerTriple ==
  (op = "get_sobol_s1_indices") =>
    LET rows == returned.val
        M == Len(Methods)
        P == Len(parameters)
        flag == IF args.all_nodes THEN "false" ELSE "unset"
    IN
    /\ status = "ok"
    /\ returned.kind = "sobol"
    /\ Len(rows) = Len(Units) * M * P
    /\ \A u \in DOMAIN Units, m \in 1..M, i \in 1..P :
         LET r == rows[((u - 1) * M + (m - 1)) * P + i] IN
         /\ r.node = Units[u]
         /\ r.method = Methods[m]
         /\ r.parameter = sobol_problem.names[i]
         /\ r.sobol_s1 = S1(sobol_problem, compute(Units[u], transformed, flag)[m].v)[i]
    /\ \A x, y \in DOMAIN rows :
         (rows[x].node = rows[y].node /\ rows[x].method = rows[y].method
            /\ rows[x].parameter = rows[y].parameter) => x = y

C8_Witness ==
  /\ op = "get_sobol_s1_indices"
  /\ args.all_nodes
  /\ tree = "n1"
  /\ Len(returned.val) = 8

C10_EvaluationReadsOnly ==
  [][(op' \in Evaluations) =>
       /\ caller' = given'
       /\ parameters' = parameters
       /\ tree' = tree]_vars

C10_Witness ==
  /\ op = "transform_parameters"
  /\ tree = "n1"
  /\ status = "ok"
  /\ HasList(given)
  /\ \E i \in DOMAIN given : ~given[i].v.isList
  /\ caller = given

====
